---- MODULE Spec2Model ----
(***************************************************************************)
(* OAuth 2.0 device authorization grant client (package oauth2dev and its  *)
(* command line caller).  The model follows the two library functions,     *)
(* RequestDeviceCode and WaitForDeviceAuthorization, statement by          *)
(* statement; every blocking point of the code (an HTTP POST, a            *)
(* time.Sleep) separates two actions.                                      *)
(***************************************************************************)
EXTENDS Integers, Sequences, FiniteSets, TLC

VARIABLES
    pc,         \* position of the single thread of control
    config,     \* *Config handed to both library calls
    code,       \* the DeviceCode the poller works on (NilDeviceCode before it exists)
    rdcErr,     \* error returned by RequestDeviceCode
    result,     \* (token, err) returned by WaitForDeviceAuthorization
    polls,      \* number of POSTs sent to the token endpoint
    trace       \* every network call, reply, body decode and sleep, in order

vars == <<pc, config, code, rdcErr, result, polls, trace>>

\* Largest number of token-endpoint polls explored in one run.
MaxPolls == 3

(***************************************************************************)
(* int64 arithmetic.  A value is four 16-bit limbs, least significant      *)
(* first, holding the two's-complement bit pattern.                        *)
(***************************************************************************)
LimbBase == 2^16

Int64(n) == <<n % LimbBase, (n \div LimbBase) % LimbBase, 0, 0>>

Zero64 == Int64(0)

\* x * k modulo 2^64, for 0 <= k < 2^14 (schoolbook, limb by limb with carry)
Int64MulSmall(x, k) ==
    LET p1 == x[1] * k
        p2 == x[2] * k + (p1 \div LimbBase)
        p3 == x[3] * k + (p2 \div LimbBase)
        p4 == x[4] * k + (p3 \div LimbBase)
    IN  <<p1 % LimbBase, p2 % LimbBase, p3 % LimbBase, p4 % LimbBase>>

Int64IsNegative(x) == x[4] >= LimbBase \div 2

\* signed x < y
Int64Less(x, y) ==
    IF Int64IsNegative(x) # Int64IsNegative(y) THEN Int64IsNegative(x)
    ELSE \/ x[4] < y[4]
         \/ x[4] = y[4] /\ x[3] < y[3]
         \/ x[4] = y[4] /\ x[3] = y[3] /\ x[2] < y[2]
         \/ x[4] = y[4] /\ x[3] = y[3] /\ x[2] = y[2] /\ x[1] < y[1]

\* time.Duration(n) * time.Second: n seconds as int64 nanoseconds (wraps)
Seconds(n) == Int64MulSmall(Int64MulSmall(Int64MulSmall(n, 1000), 1000), 1000)

(***************************************************************************)
(* time.Time.  The zero Time, or an instant reached from a clock reading   *)
(* by Add(d).                                                              *)
(***************************************************************************)
ZeroTime == [zero |-> TRUE, at |-> 0, plus |-> Zero64]

TimeAt(t) == [zero |-> FALSE, at |-> t, plus |-> Zero64]

TimeAdd(t, d) == [zero |-> t.zero, at |-> t.at, plus |-> d]

IsZero(t) == t.zero

\* readings time.Now() can give
Instants == {1000, 2000}

(***************************************************************************)
(* JSON as encoding/json sees it.  A value is a string, an integer that    *)
(* fits int64, a number that does not decode into int64 (a fraction or an  *)
(* out-of-range integer), or null.  A body is an object (a function from   *)
(* its keys to values), another well-formed JSON value, or text that is    *)
(* not JSON.                                                               *)
(***************************************************************************)
JStr(s) == [t |-> "str", s |-> s, n |-> Zero64]

JInt(n) == [t |-> "int", s |-> "", n |-> n]

JFloat == [t |-> "float", s |-> "", n |-> Zero64]

JNull == [t |-> "null", s |-> "", n |-> Zero64]

JObject(o) == [t |-> "object", o |-> o]

JArray == [t |-> "array", o |-> <<>>]

Malformed == [t |-> "malformed", o |-> <<>>]

WellFormed(body) == body.t # "malformed"

\* a key of the object decodes into a string field without error
StrFieldOk(o, k) == k \in DOMAIN o => o[k].t \in {"str", "null"}

\* the string field after decoding: absent and null leave the zero value
StrField(o, k) == IF k \in DOMAIN o /\ o[k].t = "str" THEN o[k].s ELSE ""

IntFieldOk(o, k) == k \in DOMAIN o => o[k].t \in {"int", "null"}

IntField(o, k) == IF k \in DOMAIN o /\ o[k].t = "int" THEN o[k].n ELSE Zero64

(***************************************************************************)
(* Errors.  NoError is Go's nil error.                                     *)
(***************************************************************************)
Error(kind, detail) == [kind |-> kind, detail |-> detail]

NoError == Error("nil", "")

ErrAccessDenied == Error("ErrAccessDenied", "access denied by user")

deviceGrantType == "urn:ietf:params:oauth:grant-type:device_code"

StatusOK == 200

StatusBadRequest == 400

StatusPreconditionRequired == 428

StatusText(s) ==
    CASE s = 200 -> "OK"
      [] s = 400 -> "Bad Request"
      [] s = 401 -> "Unauthorized"
      [] s = 428 -> "Precondition Required"
      [] s = 500 -> "Internal Server Error"
      [] OTHER -> ""

\* the %v (%v) pair both status errors print
StatusDetail(s) == ToString(s) \o " (" \o StatusText(s) \o ")"

(***************************************************************************)
(* DeviceCode and its JSON decoding.                                       *)
(***************************************************************************)
NilDeviceCode == [nil |-> TRUE]

ZeroDeviceCode ==
    [DeviceCode |-> "", UserCode |-> "", VerificationURL |-> "",
     VerificationURLComplete |-> "", ExpiresIn |-> Zero64, Interval |-> Zero64]

\* the slip of binding the two verification URLs to each other's JSON key
DecodeDeviceCodeSwappedURLs(body) ==
    IF body.t = "null" THEN [ok |-> TRUE, dcr |-> ZeroDeviceCode]
    ELSE IF body.t # "object" THEN [ok |-> FALSE, dcr |-> ZeroDeviceCode]
    ELSE LET o == body.o IN
      [ok  |-> /\ \A k \in {"device_code", "user_code", "verification_uri",
                            "verification_uri_complete"} : StrFieldOk(o, k)
               /\ \A k \in {"expires_in", "interval"} : IntFieldOk(o, k),
       dcr |-> [DeviceCode |-> StrField(o, "device_code"),
                UserCode |-> StrField(o, "user_code"),
                VerificationURL |-> StrField(o, "verification_uri_complete"),
                VerificationURLComplete |-> StrField(o, "verification_uri"),
                ExpiresIn |-> IntField(o, "expires_in"),
                Interval |-> IntField(o, "interval")]]

\* dec.Decode(&dcr): ok says whether Decode returned nil
DecodeDeviceCode(body) ==
    IF body.t = "null" THEN [ok |-> TRUE, dcr |-> ZeroDeviceCode]
    ELSE IF body.t # "object" THEN [ok |-> FALSE, dcr |-> ZeroDeviceCode]
    ELSE LET o == body.o IN
      [ok  |-> /\ \A k \in {"device_code", "user_code", "verification_uri",
                            "verification_uri_complete"} : StrFieldOk(o, k)
               /\ \A k \in {"expires_in", "interval"} : IntFieldOk(o, k),
       dcr |-> [DeviceCode |-> StrField(o, "device_code"),
                UserCode |-> StrField(o, "user_code"),
                VerificationURL |-> StrField(o, "verification_uri"),
                VerificationURLComplete |-> StrField(o, "verification_uri_complete"),
                ExpiresIn |-> IntField(o, "expires_in"),
                Interval |-> IntField(o, "interval")]]

\* strings.Join(elems, sep)
RECURSIVE Join(_, _)
Join(elems, sep) ==
    IF Len(elems) = 0 THEN ""
    ELSE IF Len(elems) = 1 THEN elems[1]
    ELSE elems[1] \o sep \o Join(Tail(elems), sep)

\* the form RequestDeviceCode posts
DeviceCodeForm(cfg) == [client_id |-> cfg.ClientID, scope |-> Join(cfg.Scopes, " ")]

(***************************************************************************)
(* RequestDeviceCode after client.PostForm has returned resp:              *)
(* (dcr, err) and whether the body was handed to the JSON decoder.         *)
(* resp.fail is the transport error ("" when the POST succeeded).          *)
(***************************************************************************)
\* the slip of taking over the poller's status rule: 400 passes as well
RequestDeviceCodeAccepts400(resp) ==
    IF resp.fail # ""
    THEN [dcr |-> NilDeviceCode, err |-> Error("transport", resp.fail), decoded |-> FALSE]
    ELSE IF resp.status # StatusOK /\ resp.status # StatusBadRequest
    THEN [dcr |-> NilDeviceCode, decoded |-> FALSE,
          err |-> Error("status", StatusDetail(resp.status))]
    ELSE LET d == DecodeDeviceCode(resp.body) IN
         IF ~d.ok
         THEN [dcr |-> NilDeviceCode, err |-> Error("decode", resp.body.t), decoded |-> TRUE]
         ELSE [dcr |-> d.dcr, err |-> NoError, decoded |-> TRUE]

RequestDeviceCode(resp) ==
    IF resp.fail # ""
    THEN [dcr |-> NilDeviceCode, err |-> Error("transport", resp.fail), decoded |-> FALSE]
    ELSE IF resp.status # StatusOK
    THEN [dcr |-> NilDeviceCode, decoded |-> FALSE,
          err |-> Error("status", StatusDetail(resp.status))]
    ELSE LET d == DecodeDeviceCode(resp.body) IN
         IF ~d.ok
         THEN [dcr |-> NilDeviceCode, err |-> Error("decode", resp.body.t), decoded |-> TRUE]
         ELSE [dcr |-> d.dcr, err |-> NoError, decoded |-> TRUE]

(***************************************************************************)
(* oauth2.Token and tokenOrError, and the decoding of a poll reply.        *)
(***************************************************************************)
NilToken == [nil |-> TRUE]

\* a JSON string holding an RFC 3339 instant, as time.Time unmarshals it
JTime(at) == [t |-> "time", s |-> "", n |-> Int64(at)]

TokenKeys == {"access_token", "token_type", "refresh_token", "expiry"}

\* the embedded *oauth2.Token: encoding/json allocates it when the object
\* holds a key of one of its fields, and leaves it nil otherwise
DecodeToken(o) ==
    IF TokenKeys \cap DOMAIN o = {} THEN NilToken
    ELSE [nil |-> FALSE,
          AccessToken |-> StrField(o, "access_token"),
          TokenType |-> StrField(o, "token_type"),
          RefreshToken |-> StrField(o, "refresh_token"),
          Expiry |-> IF "expiry" \in DOMAIN o /\ o["expiry"].t = "time"
                     THEN TimeAt(o["expiry"].n[1]) ELSE ZeroTime]

ZeroTokenOrError ==
    [Token |-> NilToken, Error |-> "", ErrorDescription |-> "", ExpiresIn |-> Zero64]

\* dec.Decode(&token)
DecodeTokenOrError(body) ==
    IF body.t = "null" THEN [ok |-> TRUE, token |-> ZeroTokenOrError]
    ELSE IF body.t # "object" THEN [ok |-> FALSE, token |-> ZeroTokenOrError]
    ELSE LET o == body.o IN
      [ok    |-> /\ \A k \in {"access_token", "token_type", "refresh_token",
                              "error", "error_description"} : StrFieldOk(o, k)
                 /\ "expiry" \in DOMAIN o => o["expiry"].t \in {"time", "null"}
                 /\ IntFieldOk(o, "expires_in"),
       token |-> [Token |-> DecodeToken(o),
                  Error |-> StrField(o, "error"),
                  ErrorDescription |-> StrField(o, "error_description"),
                  ExpiresIn |-> IntField(o, "expires_in")]]

\* the reading of section 4.2: client_secret is left out when none is configured
TokenFormOmitsEmptySecret(cfg, c) ==
    IF cfg.ClientSecret = ""
    THEN [client_id |-> cfg.ClientID, device_code |-> c.DeviceCode,
          grant_type |-> deviceGrantType]
    ELSE [client_secret |-> cfg.ClientSecret, client_id |-> cfg.ClientID,
          device_code |-> c.DeviceCode, grant_type |-> deviceGrantType]

\* the form every poll posts
TokenForm(cfg, c) ==
    [client_secret |-> cfg.ClientSecret, client_id |-> cfg.ClientID,
     device_code |-> c.DeviceCode, grant_type |-> deviceGrantType]

(***************************************************************************)
(* One iteration of the loop of WaitForDeviceAuthorization after           *)
(* client.PostForm has returned resp.  c is the DeviceCode behind the code *)
(* pointer and now the reading time.Now() gives.  next tells how the       *)
(* iteration ends: "return" (token, err), "sleep" (the loop goes on after  *)
(* time.Sleep) or "panic" (nil pointer dereference).                       *)
(***************************************************************************)
Return(token, err, c, decoded) ==
    [next |-> "return", token |-> token, err |-> err, code |-> c, decoded |-> decoded]

SleepNext(c, decoded) ==
    [next |-> "sleep", token |-> NilToken, err |-> NoError, code |-> c, decoded |-> decoded]

Panic(c) ==
    [next |-> "panic", token |-> NilToken, err |-> NoError, code |-> c, decoded |-> TRUE]

\* the slip of retrying a failed POST after the usual sleep
TransportFailureRetried(resp, c) == SleepNext(c, FALSE)

\* if err != nil { return nil, err }
TransportFailure(resp, c) == Return(NilToken, Error("transport", resp.fail), c, FALSE)

\* the reading of section 4.2: any unexpected status counts as pending
UnexpectedStatusAsPending(resp, c) == SleepNext(c, FALSE)

\* a status that is not 428, not 200 and not 400
UnexpectedStatus(resp, c) ==
    Return(NilToken, Error("http", StatusDetail(resp.status)), c, FALSE)

\* token.Expiry.IsZero() dereferences the embedded pointer
ExpiryPanics(status, token) == status # StatusBadRequest /\ token.Token.nil

\* the token after the expiry computation of the non-400 branch
WithExpiry(status, token, now) ==
    IF /\ status # StatusBadRequest
       /\ IsZero(token.Token.Expiry)
       /\ token.ExpiresIn # Zero64
    THEN [token EXCEPT !.Token.Expiry = TimeAdd(TimeAt(now), Seconds(token.ExpiresIn))]
    ELSE token

\* the slip of leaving out the authorization_pending case: it falls to default
SwitchErrorSurfacesPending(token, c) ==
    CASE token.Error = "" -> Return(token.Token, NoError, c, TRUE)
      [] token.Error = "slow_down" ->
            SleepNext([c EXCEPT !.Interval = Int64MulSmall(c.Interval, 2)], TRUE)
      [] token.Error = "access_denied" -> Return(NilToken, ErrAccessDenied, c, TRUE)
      [] OTHER ->
            Return(NilToken, Error("authorization", "authorization failed: " \o token.Error),
                   c, TRUE)

\* the slip of a missing return: access_denied falls out of the switch to the sleep
SwitchErrorRetriesDenied(token, c) ==
    CASE token.Error = "" -> Return(token.Token, NoError, c, TRUE)
      [] token.Error = "authorization_pending" -> SleepNext(c, TRUE)
      [] token.Error = "slow_down" ->
            SleepNext([c EXCEPT !.Interval = Int64MulSmall(c.Interval, 2)], TRUE)
      [] token.Error = "access_denied" -> SleepNext(c, TRUE)
      [] OTHER ->
            Return(NilToken, Error("authorization", "authorization failed: " \o token.Error),
                   c, TRUE)

\* the slip of backing off on every transient reply, pending included
SwitchErrorBacksOffOnPending(token, c) ==
    CASE token.Error = "" -> Return(token.Token, NoError, c, TRUE)
      [] token.Error \in {"authorization_pending", "slow_down"} ->
            SleepNext([c EXCEPT !.Interval = Int64MulSmall(c.Interval, 2)], TRUE)
      [] token.Error = "access_denied" -> Return(NilToken, ErrAccessDenied, c, TRUE)
      [] OTHER ->
            Return(NilToken, Error("authorization", "authorization failed: " \o token.Error),
                   c, TRUE)

\* switch token.Error
SwitchError(token, c) ==
    CASE token.Error = "" -> Return(token.Token, NoError, c, TRUE)
      [] token.Error = "authorization_pending" -> SleepNext(c, TRUE)
      [] token.Error = "slow_down" ->
            SleepNext([c EXCEPT !.Interval = Int64MulSmall(c.Interval, 2)], TRUE)
      [] token.Error = "access_denied" -> Return(NilToken, ErrAccessDenied, c, TRUE)
      [] OTHER ->
            Return(NilToken, Error("authorization", "authorization failed: " \o token.Error),
                   c, TRUE)

\* the slip of dropping the check of Decode's error: the switch runs on
\* whatever was decoded
WaitForDeviceAuthorizationIgnoresDecodeError(resp, c, now) ==
    IF resp.fail # "" THEN TransportFailure(resp, c)
    ELSE IF resp.status = StatusPreconditionRequired THEN SleepNext(c, FALSE)
    ELSE IF resp.status # StatusOK /\ resp.status # StatusBadRequest
    THEN UnexpectedStatus(resp, c)
    ELSE LET d == DecodeTokenOrError(resp.body) IN
         IF ExpiryPanics(resp.status, d.token) THEN Panic(c)
         ELSE SwitchError(WithExpiry(resp.status, d.token, now), c)

\* the poller without its 428 branch: Precondition Required is one more
\* unexpected status
WaitForDeviceAuthorizationWithout428(resp, c, now) ==
    IF resp.fail # "" THEN TransportFailure(resp, c)
    ELSE IF resp.status # StatusOK /\ resp.status # StatusBadRequest
    THEN UnexpectedStatus(resp, c)
    ELSE LET d == DecodeTokenOrError(resp.body) IN
         IF ~d.ok THEN Return(NilToken, Error("decode", resp.body.t), c, TRUE)
         ELSE IF ExpiryPanics(resp.status, d.token) THEN Panic(c)
         ELSE SwitchError(WithExpiry(resp.status, d.token, now), c)

WaitForDeviceAuthorization(resp, c, now) ==
    IF resp.fail # "" THEN TransportFailure(resp, c)
    ELSE IF resp.status = StatusPreconditionRequired THEN SleepNext(c, FALSE)
    ELSE IF resp.status # StatusOK /\ resp.status # StatusBadRequest
    THEN UnexpectedStatus(resp, c)
    ELSE LET d == DecodeTokenOrError(resp.body) IN
         IF ~d.ok THEN Return(NilToken, Error("decode", resp.body.t), c, TRUE)
         ELSE IF ExpiryPanics(resp.status, d.token) THEN Panic(c)
         ELSE SwitchError(WithExpiry(resp.status, d.token, now), c)

(***************************************************************************)
(* What the environment can supply: the configuration and the replies of   *)
(* the two endpoints.                                                      *)
(***************************************************************************)
Configs ==
    { [ClientID |-> "client-1", ClientSecret |-> secret,
       Scopes |-> <<"openid", "profile", "email">>,
       CodeURL |-> "https://idp/auth/device", TokenURL |-> "https://idp/token"]
      : secret \in {"", "s3cret"} }

HTTPResponse(status, body) == [fail |-> "", status |-> status, body |-> body]

TransportError(cause) == [fail |-> cause, status |-> 0, body |-> Malformed]

\* 2^62, the largest power of two an int64 interval can hold
Two62 == <<0, 0, 0, LimbBase \div 4>>

DeviceBodies ==
    { JObject([device_code |-> JStr("D1"), user_code |-> JStr("ABCD-EFGH"),
               verification_uri |-> JStr("https://idp/device"),
               verification_uri_complete |-> JStr("https://idp/device?code=ABCD-EFGH"),
               expires_in |-> JInt(Int64(600)), interval |-> JInt(Int64(5))]),
      JObject([device_code |-> JStr("D2"), user_code |-> JStr("WXYZ-1234"),
               verification_uri |-> JStr("https://idp/device"),
               expires_in |-> JInt(Int64(1))]),
      JObject([device_code |-> JStr("D2"), user_code |-> JStr("WXYZ-1234"),
               expires_in |-> JInt(Int64(1)), interval |-> JInt(Int64(5))]),
      JObject([device_code |-> JStr("D1"), user_code |-> JNull,
               verification_uri_complete |-> JStr("https://idp/device?code=ABCD-EFGH"),
               expires_in |-> JInt(Int64(600)), interval |-> JInt(Two62)]),
      JObject([device_code |-> JStr("D1"), user_code |-> JStr("ABCD-EFGH"),
               expires_in |-> JInt(Int64(600)), interval |-> JStr("5")]),
      JObject([device_code |-> JInt(Int64(1)), interval |-> JInt(Int64(5))]),
      JObject([device_code |-> JStr("D1"), expires_in |-> JFloat]),
      JObject(<<>>),
      [t |-> "null", o |-> <<>>],
      JArray,
      Malformed }

DeviceResponses ==
    {TransportError("connection refused")}
    \cup {HTTPResponse(st, b) : st \in {200, 400, 500}, b \in DeviceBodies}

ErrorCodes == {"authorization_pending", "slow_down", "access_denied", "invalid_grant"}

TokenBodies ==
    { JObject([error |-> JStr(e)]) : e \in ErrorCodes }
    \cup { JObject([error |-> JStr(e), error_description |-> JStr("wait"),
                    access_token |-> JStr("")])
           : e \in {"authorization_pending", "slow_down"} }
    \cup { JObject([access_token |-> JStr("tok123"), token_type |-> JStr("Bearer"),
                    expires_in |-> JInt(Int64(3600))]),
           JObject([access_token |-> JStr("tok456"), token_type |-> JStr("Bearer"),
                    refresh_token |-> JStr("ref1")]),
           JObject([access_token |-> JStr("tok123"), expiry |-> JTime(5000),
                    expires_in |-> JInt(Int64(3600))]),
           JObject([expires_in |-> JInt(Int64(3600))]),
           JObject(<<>>),
           JObject([access_token |-> JStr("tok123"), expires_in |-> JStr("3600")]),
           JObject([error |-> JInt(Int64(1))]),
           JArray,
           Malformed }

TokenResponses ==
    {TransportError("connection reset")}
    \cup {HTTPResponse(st, b) : st \in {200, 400}, b \in TokenBodies}
    \cup {HTTPResponse(st, Malformed) : st \in {428, 401, 500}}

(***************************************************************************)
(* The trace: what the process did, in order.                              *)
(***************************************************************************)
Event(ev, to) ==
    [ev |-> ev, to |-> to, status |-> 0, fail |-> "", body |-> Malformed, ok |-> FALSE,
     error |-> "", hasToken |-> FALSE, d |-> Zero64, form |-> <<>>]

\* client.PostForm(url, form) is issued
PostEvent(to, form) == [Event("post", to) EXCEPT !.form = form]

\* client.PostForm returns
ReplyEvent(to, resp) ==
    [Event("reply", to) EXCEPT !.status = resp.status, !.fail = resp.fail,
                               !.body = resp.body]

\* dec.Decode runs on the body of the reply
DecodeDeviceEvent(body) == [Event("decode", "code") EXCEPT !.ok = DecodeDeviceCode(body).ok]

DecodeTokenEvent(body) ==
    LET d == DecodeTokenOrError(body) IN
    [Event("decode", "token") EXCEPT !.ok = d.ok, !.error = d.token.Error,
                                     !.hasToken = ~d.token.Token.nil]

\* time.Sleep(d) runs
SleepEvent(d) == [Event("sleep", "token") EXCEPT !.d = d]

(***************************************************************************)
(* The program: main calls RequestDeviceCode, then                         *)
(* WaitForDeviceAuthorization with the DeviceCode it got.                  *)
(***************************************************************************)
Init ==
    /\ pc = "main"
    /\ config \in Configs
    /\ code = NilDeviceCode
    /\ rdcErr = NoError
    /\ result = [token |-> NilToken, err |-> NoError]
    /\ polls = 0
    /\ trace = <<>>

\* RequestDeviceCode: the POST to the device authorization endpoint goes out
RequestDeviceCodePost ==
    /\ pc = "main"
    /\ pc' = "rdc_post"
    /\ trace' = Append(trace, PostEvent("code", DeviceCodeForm(config)))
    /\ UNCHANGED <<config, code, rdcErr, result, polls>>

\* RequestDeviceCode: the POST returns and the function runs to its return
RequestDeviceCodeReply ==
    /\ pc = "rdc_post"
    /\ \E resp \in DeviceResponses :
         LET r == RequestDeviceCode(resp) IN
         /\ code' = r.dcr
         /\ rdcErr' = r.err
         /\ trace' = trace \o <<ReplyEvent("code", resp)>>
                           \o (IF r.decoded THEN <<DecodeDeviceEvent(resp.body)>> ELSE <<>>)
    /\ pc' = "rdc_returned"
    /\ UNCHANGED <<config, result, polls>>

\* main: log.Fatal on an error, otherwise show the URL and start polling
MainAfterRequest ==
    /\ pc = "rdc_returned"
    /\ pc' = IF rdcErr # NoError THEN "fatal" ELSE "wait_loop"
    /\ UNCHANGED <<config, code, rdcErr, result, polls, trace>>

\* WaitForDeviceAuthorization: top of the loop, the poll goes out
Poll ==
    /\ pc = "wait_loop"
    /\ polls < MaxPolls
    /\ polls' = polls + 1
    /\ pc' = "wait_post"
    /\ trace' = Append(trace, PostEvent("token", TokenForm(config, code)))
    /\ UNCHANGED <<config, code, rdcErr, result>>

\* WaitForDeviceAuthorization: the poll returns and the iteration runs up to
\* its return, its panic or its time.Sleep
PollReply ==
    /\ pc = "wait_post"
    /\ \E resp \in TokenResponses, now \in Instants :
         LET r == WaitForDeviceAuthorization(resp, code, now) IN
         /\ code' = r.code
         /\ result' = IF r.next = "return" THEN [token |-> r.token, err |-> r.err]
                      ELSE result
         /\ trace' = trace \o <<ReplyEvent("token", resp)>>
                           \o (IF r.decoded THEN <<DecodeTokenEvent(resp.body)>> ELSE <<>>)
         /\ pc' = CASE r.next = "return" -> "wait_returned"
                    [] r.next = "sleep" -> "wait_sleep"
                    [] r.next = "panic" -> "panicked"
    /\ UNCHANGED <<config, rdcErr, polls>>

\* WaitForDeviceAuthorization: time.Sleep(time.Duration(code.Interval) * time.Second)
Sleep ==
    /\ pc = "wait_sleep"
    /\ trace' = Append(trace, SleepEvent(Seconds(code.Interval)))
    /\ pc' = "wait_loop"
    /\ UNCHANGED <<config, code, rdcErr, result, polls>>

\* main: log.Fatal on an error, otherwise print the token
MainAfterWait ==
    /\ pc = "wait_returned"
    /\ pc' = IF result.err # NoError THEN "fatal" ELSE "done"
    /\ UNCHANGED <<config, code, rdcErr, result, polls, trace>>

Next ==
    \/ RequestDeviceCodePost
    \/ RequestDeviceCodeReply
    \/ MainAfterRequest
    \/ Poll
    \/ PollReply
    \/ Sleep
    \/ MainAfterWait

Spec == Init /\ [][Next]_vars

(***************************************************************************)
(* Reading the trace.                                                      *)
(***************************************************************************)
\* the replies of the token endpoint, by position in the trace
TokenReplies == {i \in DOMAIN trace : trace[i].ev = "reply" /\ trace[i].to = "token"}

\* the replies of the device authorization endpoint
DeviceReplies == {i \in DOMAIN trace : trace[i].ev = "reply" /\ trace[i].to = "code"}

SleepsAfter(i) == {j \in DOMAIN trace : j > i /\ trace[j].ev = "sleep"}

PollsAfter(i) ==
    {j \in DOMAIN trace : j > i /\ trace[j].ev = "post" /\ trace[j].to = "token"}

DecodesAfter(i) == {j \in DOMAIN trace : j > i /\ trace[j].ev = "decode"}

\* the reply event r has status 200 or 400 and a body that decodes with
\* discriminant e
ReplyHasDiscriminant(r, e) ==
    /\ r.fail = ""
    /\ r.status \in {200, 400}
    /\ r.body.t = "object"
    /\ "error" \in DOMAIN r.body.o => r.body.o["error"].t = "str"
    /\ "expires_in" \in DOMAIN r.body.o => r.body.o["expires_in"].t = "int"
    /\ \A k \in TokenKeys \cap DOMAIN r.body.o : r.body.o[k].t \in {"str", "time"}
    /\ IF "error" \in DOMAIN r.body.o THEN r.body.o["error"].s = e ELSE e = ""

\* reply i has status 200 or 400 and a body that decodes with discriminant e
HasDiscriminant(i, e) == ReplyHasDiscriminant(trace[i], e)

\* reply i carries token fields
HasTokenFields(i) == TokenKeys \cap DOMAIN trace[i].body.o # {}

\* reply i is the last thing the process did
LastEvent(i) == i = Len(trace)

\* reply i is the last reply so far
LastReply(i) == \A j \in TokenReplies : j <= i

\* WaitForDeviceAuthorization has returned to main
WaitReturned == pc = "wait_returned" \/ (pc \in {"done", "fatal"} /\ polls > 0)

\* WaitForDeviceAuthorization is still in its loop
StillPolling == pc \in {"wait_loop", "wait_post", "wait_sleep"}

\* the interval RequestDeviceCode handed to the poller
InitialInterval == DecodeDeviceCode(trace[CHOOSE i \in DeviceReplies : TRUE].body).dcr.Interval

RECURSIVE DoubledTimes(_, _)
DoubledTimes(x, k) == IF k = 0 THEN x ELSE DoubledTimes(Int64MulSmall(x, 2), k - 1)

(***************************************************************************)
(* C1: when the token endpoint replies authorization_pending N times and   *)
(* then with a token, the call goes on after every pending reply, and on   *)
(* the token reply it has polled exactly N+1 times, slept exactly N times, *)
(* each time for the DeviceCode's interval, and returns the token of the   *)
(* final reply with no error.                                              *)
(***************************************************************************)
C1_PendingThenToken ==
    \A i \in TokenReplies :
       (\A j \in TokenReplies : j < i => HasDiscriminant(j, "authorization_pending")) =>
          LET n == Cardinality({j \in TokenReplies : j < i}) IN
          /\ HasDiscriminant(i, "authorization_pending") /\ LastReply(i) =>
                /\ StillPolling
                /\ polls \in {n + 1, n + 2}
                /\ Cardinality(SleepsAfter(0)) \in {n, n + 1}
          /\ HasDiscriminant(i, "") /\ HasTokenFields(i) =>
                /\ WaitReturned
                /\ result.err = NoError
                /\ ~result.token.nil
                /\ result.token.AccessToken = trace[i].body.o["access_token"].s
                /\ polls = n + 1
                /\ Cardinality(SleepsAfter(0)) = n
                /\ \A j \in SleepsAfter(0) : trace[j].d = Seconds(InitialInterval)

(***************************************************************************)
(* C2: a status 200 reply whose body is {"error":"authorization_pending"}  *)
(* (no token fields) keeps the call polling: it neither returns nor        *)
(* aborts, sleeps for the interval and polls again; a following status 200 *)
(* token reply is returned.                                                *)
(***************************************************************************)
C2_Status200PendingKeepsPolling ==
    \A i \in TokenReplies :
       /\ trace[i].status = 200
       /\ HasDiscriminant(i, "authorization_pending")
       /\ ~HasTokenFields(i)
       => /\ LastReply(i) => StillPolling
          /\ \A j \in TokenReplies :
                j > i /\ (\A k \in TokenReplies : k <= j) /\ trace[j].status = 200
                      /\ HasDiscriminant(j, "") /\ HasTokenFields(j)
                => WaitReturned /\ result.err = NoError /\ ~result.token.nil

(***************************************************************************)
(* C3: every slow_down reply doubles the DeviceCode's interval before the  *)
(* sleep that follows it: after k slow_down replies (among pending ones)   *)
(* the interval is the initial one doubled k times, the call is still      *)
(* polling, and the sleep after the reply lasts the doubled interval.      *)
(***************************************************************************)
C3_SlowDownDoublesBeforeSleep ==
    \A i \in TokenReplies :
       /\ HasDiscriminant(i, "slow_down")
       /\ LastReply(i)
       /\ \A j \in TokenReplies :
             HasDiscriminant(j, "authorization_pending") \/ HasDiscriminant(j, "slow_down")
       => LET k == Cardinality({j \in TokenReplies : HasDiscriminant(j, "slow_down")}) IN
          /\ StillPolling
          /\ code.Interval = DoubledTimes(InitialInterval, k)
          /\ \A j \in SleepsAfter(i) : trace[j].d = Seconds(DoubledTimes(InitialInterval, k))

(***************************************************************************)
(* C4: the first access_denied reply, whatever pending or slow_down        *)
(* replies came before, makes the call return ErrAccessDenied with no      *)
(* token; no poll and no sleep follows it.                                 *)
(***************************************************************************)
C4_AccessDeniedReturnsErrAccessDenied ==
    \A i \in TokenReplies :
       HasDiscriminant(i, "access_denied") =>
          /\ WaitReturned
          /\ result = [token |-> NilToken, err |-> ErrAccessDenied]
          /\ PollsAfter(i) = {}
          /\ SleepsAfter(i) = {}

(***************************************************************************)
(* C5: a reply of the device authorization endpoint with a status other    *)
(* than 200 makes RequestDeviceCode return an error and no DeviceCode      *)
(* after exactly one network call: nothing is retried, the body is not     *)
(* decoded.                                                                *)
(***************************************************************************)
C5_NonOKStatusIsFatal ==
    \A i \in DeviceReplies :
       trace[i].fail = "" /\ trace[i].status # 200 =>
          /\ code = NilDeviceCode
          /\ rdcErr.kind = "status"
          /\ pc \in {"rdc_returned", "fatal"}
          /\ Cardinality({j \in DOMAIN trace : trace[j].ev = "post"}) = 1
          /\ DecodesAfter(0) = {}
          /\ LastEvent(i)

C5_Witness ==
    /\ pc = "rdc_returned"
    /\ \E i \in DeviceReplies :
          /\ trace[i].status = 400
          /\ DecodeDeviceCode(trace[i].body).ok

(***************************************************************************)
(* C6.  The body of a device authorization reply is valid when it is a     *)
(* JSON object whose members for the six DeviceCode keys, where present,   *)
(* are strings (device_code, user_code, verification_uri,                  *)
(* verification_uri_complete) and integers that fit int64 (expires_in,     *)
(* interval).                                                              *)
(***************************************************************************)
DeviceStringKeys ==
    [device_code |-> "DeviceCode", user_code |-> "UserCode",
     verification_uri |-> "VerificationURL",
     verification_uri_complete |-> "VerificationURLComplete"]

DeviceIntKeys == [expires_in |-> "ExpiresIn", interval |-> "Interval"]

ValidDeviceBody(body) ==
    /\ body.t = "object"
    /\ \A k \in DOMAIN DeviceStringKeys \cap DOMAIN body.o : body.o[k].t = "str"
    /\ \A k \in DOMAIN DeviceIntKeys \cap DOMAIN body.o : body.o[k].t = "int"

\* the DeviceCode returned holds exactly the members of the body
FieldsMatchBody(body) ==
    /\ code # NilDeviceCode
    /\ \A k \in DOMAIN DeviceStringKeys :
          code[DeviceStringKeys[k]] = IF k \in DOMAIN body.o THEN body.o[k].s ELSE ""
    /\ \A k \in DOMAIN DeviceIntKeys :
          code[DeviceIntKeys[k]] = IF k \in DOMAIN body.o THEN body.o[k].n ELSE Zero64

(***************************************************************************)
(* C6 as stated: every status 200 reply with a well-formed JSON body makes *)
(* RequestDeviceCode return no error and a DeviceCode holding exactly the  *)
(* values of the body.                                                     *)
(***************************************************************************)
C6_WellFormedBodyGivesDeviceCode ==
    \A i \in DeviceReplies :
       trace[i].fail = "" /\ trace[i].status = 200 /\ WellFormed(trace[i].body)
          /\ pc = "rdc_returned"
       => rdcErr = NoError /\ FieldsMatchBody(trace[i].body)

(***************************************************************************)
(* C6 amended: every status 200 reply with a valid body makes              *)
(* RequestDeviceCode return no error and a DeviceCode whose six fields are *)
(* exactly the members of the body, an absent member giving the zero       *)
(* value.                                                                  *)
(***************************************************************************)
C6_ValidBodyGivesDeviceCode ==
    \A i \in DeviceReplies :
       trace[i].fail = "" /\ trace[i].status = 200 /\ ValidDeviceBody(trace[i].body)
          /\ pc = "rdc_returned"
       => rdcErr = NoError /\ FieldsMatchBody(trace[i].body)

C6_Witness ==
    /\ pc = "rdc_returned"
    /\ rdcErr = NoError
    /\ code # NilDeviceCode
    /\ code.DeviceCode = "D1"
    /\ code.UserCode = "ABCD-EFGH"
    /\ code.VerificationURL = "https://idp/device"
    /\ code.VerificationURLComplete = "https://idp/device?code=ABCD-EFGH"
    /\ code.ExpiresIn = Int64(600)
    /\ code.Interval = Int64(5)

(***************************************************************************)
(* C7: every reply with status 200 or 400 whose decoded body carries no    *)
(* error discriminant makes the call return a token; when the body sets no *)
(* expiry instant and a non-zero expires_in, the token returned expires    *)
(* expires_in seconds after the time of return, for both statuses.         *)
(***************************************************************************)
C7_TokenReplyReturnsTokenWithExpiry ==
    \A i \in TokenReplies :
       HasDiscriminant(i, "") =>
          /\ WaitReturned
          /\ result.err = NoError
          /\ ~result.token.nil
          /\ LET o == trace[i].body.o IN
             /\ "expiry" \notin DOMAIN o
             /\ "expires_in" \in DOMAIN o
             /\ o["expires_in"].n # Zero64
             => \E now \in Instants :
                   result.token.Expiry = TimeAdd(TimeAt(now), Seconds(o["expires_in"].n))

\* reply i has a status that is not 200, not 400 and not 428
HasUnexpectedStatus(i) == trace[i].fail = "" /\ trace[i].status \notin {200, 400, 428}

(***************************************************************************)
(* C8 as stated: on a status that is not 200, 400 or 428 the call does not *)
(* return: it sleeps for the interval and polls again.                     *)
(***************************************************************************)
C8_UnexpectedStatusKeepsPolling ==
    \A i \in TokenReplies :
       HasUnexpectedStatus(i) /\ LastReply(i) => StillPolling

(***************************************************************************)
(* C8 amended: on a status that is not 200, 400 or 428 the call does not   *)
(* decode the body and returns at once, with no token and an error that    *)
(* names the status code and its text; no sleep and no poll follows.       *)
(***************************************************************************)
C8_UnexpectedStatusIsFatal ==
    \A i \in TokenReplies :
       HasUnexpectedStatus(i) =>
          /\ WaitReturned
          /\ result.token = NilToken
          /\ result.err = Error("http", StatusDetail(trace[i].status))
          /\ LastEvent(i)

C8_Witness ==
    /\ pc = "wait_returned"
    /\ polls = 2
    /\ \E i \in TokenReplies : HasUnexpectedStatus(i) /\ trace[i].status = 500
    /\ \E j \in TokenReplies : HasDiscriminant(j, "authorization_pending")

(***************************************************************************)
(* C9: a poll whose POST fails at the transport level, wherever in the     *)
(* polling sequence, makes the call return that error with no token at     *)
(* once: no sleep and no poll follows the failed poll.                     *)
(***************************************************************************)
C9_TransportFailureIsFatal ==
    \A i \in TokenReplies :
       trace[i].fail # "" =>
          /\ WaitReturned
          /\ result.token = NilToken
          /\ result.err = Error("transport", trace[i].fail)
          /\ LastEvent(i)

C9_Witness ==
    /\ pc = "wait_returned"
    /\ polls = 3
    /\ trace[Len(trace)].ev = "reply"
    /\ trace[Len(trace)].fail = "connection reset"
    /\ Cardinality(SleepsAfter(0)) = 2

(***************************************************************************)
(* C10: a reply whose error discriminant is not empty and is none of       *)
(* authorization_pending, slow_down and access_denied makes the call       *)
(* return, with no token, an error that embeds the discriminant and is not *)
(* ErrAccessDenied; no sleep and no poll follows.                          *)
(***************************************************************************)
C10_OtherErrorIsFatal ==
    \A i \in TokenReplies :
       \A e \in ErrorCodes \ {"authorization_pending", "slow_down", "access_denied"} :
          HasDiscriminant(i, e) =>
             /\ WaitReturned
             /\ result.token = NilToken
             /\ result.err = Error("authorization", "authorization failed: " \o e)
             /\ result.err # ErrAccessDenied
             /\ PollsAfter(i) = {}
             /\ SleepsAfter(i) = {}

\* reply i is transient: the poller is to carry on after it
Transient(i) ==
    \/ trace[i].fail = "" /\ trace[i].status = 428
    \/ HasDiscriminant(i, "authorization_pending")
    \/ HasDiscriminant(i, "slow_down")

(***************************************************************************)
(* C11: the call never returns in response to an authorization_pending or  *)
(* slow_down reply: whenever it has returned, the reply it returned on is  *)
(* neither of the two, and the error it returned does not carry either     *)
(* signal.                                                                 *)
(***************************************************************************)
C11_PendingNeverSurfaced ==
    WaitReturned =>
       /\ \A i \in TokenReplies :
             LastReply(i) => /\ ~HasDiscriminant(i, "authorization_pending")
                             /\ ~HasDiscriminant(i, "slow_down")
       /\ \A e \in {"authorization_pending", "slow_down"} :
             result.err # Error("authorization", "authorization failed: " \o e)

C11_Witness ==
    /\ pc = "wait_returned"
    /\ polls = 3
    /\ \E i \in TokenReplies : HasDiscriminant(i, "authorization_pending")
    /\ \E i \in TokenReplies : HasDiscriminant(i, "slow_down")

(***************************************************************************)
(* C12: the events of one call are strictly ordered poll -> reply ->       *)
(* sleep -> poll.  At most one poll is outstanding; a reply follows its    *)
(* poll; a sleep follows a transient reply only, so none comes before the  *)
(* first poll or after a terminal reply; every poll but the first follows  *)
(* a completed sleep.                                                      *)
(***************************************************************************)
C12_PollReplySleepOrder ==
    LET posts == PollsAfter(0) IN
    /\ Cardinality(posts) = polls
    /\ Cardinality(posts) - Cardinality(TokenReplies) = IF pc = "wait_post" THEN 1 ELSE 0
    /\ \A i \in TokenReplies : i - 1 \in posts
    /\ \A i \in posts :
          \/ {j \in SleepsAfter(0) \cup posts \cup TokenReplies : j < i} = {}
          \/ trace[i - 1].ev = "sleep"
    /\ \A i \in SleepsAfter(0) :
          \/ i - 1 \in TokenReplies /\ Transient(i - 1)
          \/ trace[i - 1].ev = "decode" /\ i - 2 \in TokenReplies /\ Transient(i - 2)
    /\ \A i \in TokenReplies :
          ~Transient(i) => PollsAfter(i) = {} /\ SleepsAfter(i) = {}

C12_Witness ==
    /\ pc = "wait_returned"
    /\ polls = 3
    /\ Cardinality(SleepsAfter(0)) = 2
    /\ \E i \in TokenReplies : trace[i].status = 428

\* the poller's step on a reply does not look at the DeviceCode's expires_in
IgnoresExpiresIn ==
    code # NilDeviceCode =>
       \A resp \in TokenResponses, now \in Instants, e \in {Zero64, Int64(1), Int64(600)} :
          LET a == WaitForDeviceAuthorization(resp, code, now)
              b == WaitForDeviceAuthorization(resp, [code EXCEPT !.ExpiresIn = e], now)
          IN  /\ a.next = b.next
              /\ a.token = b.token
              /\ a.err = b.err
              /\ a.code.Interval = b.code.Interval

\* the time slept so far is beyond the DeviceCode's expires_in
SleptPastExpiry ==
    /\ code # NilDeviceCode
    /\ Cardinality(SleepsAfter(0)) >= 1
    /\ \A j \in SleepsAfter(0) : Int64Less(Seconds(code.ExpiresIn), trace[j].d)

(***************************************************************************)
(* C13: the poller has no poll limit and no deadline.  Its step does not   *)
(* depend on expires_in; as long as every reply is authorization_pending   *)
(* the call keeps polling, also once it has slept past expires_in; and a   *)
(* token reply after N pending ones is returned however long the call has  *)
(* slept.                                                                  *)
(***************************************************************************)
C13_NoDeadline ==
    /\ IgnoresExpiresIn
    /\ \A i \in TokenReplies :
          (\A j \in TokenReplies : j < i => HasDiscriminant(j, "authorization_pending")) =>
             /\ HasDiscriminant(i, "authorization_pending") /\ LastReply(i) => StillPolling
             /\ HasDiscriminant(i, "") /\ HasTokenFields(i) =>
                   WaitReturned /\ result.err = NoError /\ ~result.token.nil

\* the part of C13 the code keeps: a token returned after the call slept past expires_in
C13_TokenPastExpiry ==
    /\ pc = "wait_returned"
    /\ result.err = NoError
    /\ ~result.token.nil
    /\ polls = 3
    /\ SleptPastExpiry

\* this step handles a poll reply; the reply is the event it adds first
HandlesReply == pc = "wait_post" /\ pc' # "wait_post"

NewReply == trace'[Len(trace) + 1]

(***************************************************************************)
(* C14: handling a slow_down reply leaves the interval strictly greater    *)
(* than it was before the reply, whatever interval RequestDeviceCode       *)
(* produced (0 included) and however many slow_down replies came before.   *)
(***************************************************************************)
C14_SlowDownRaisesInterval ==
    [][HandlesReply /\ ReplyHasDiscriminant(NewReply, "slow_down")
          => Int64Less(code.Interval, code'.Interval)]_vars

(***************************************************************************)
(* C16: the poller changes nothing but the interval of the DeviceCode, and *)
(* that only when it handles a slow_down reply: every other step of the    *)
(* call leaves the whole DeviceCode as it is, and no step changes          *)
(* device_code, user_code, the verification URIs, expires_in or the        *)
(* configuration.                                                          *)
(***************************************************************************)
C16_OnlySlowDownChangesInterval ==
    [][StillPolling =>
          /\ config' = config
          /\ rdcErr' = rdcErr
          /\ [code' EXCEPT !.Interval = code.Interval] = code
          /\ code'.Interval # code.Interval =>
                HandlesReply /\ ReplyHasDiscriminant(NewReply, "slow_down")]_vars

C16_Witness ==
    /\ pc = "wait_returned"
    /\ polls = 3
    /\ \E i \in TokenReplies : HasDiscriminant(i, "slow_down")
    /\ \E i \in TokenReplies : HasDiscriminant(i, "authorization_pending")
    /\ \E i \in TokenReplies : HasDiscriminant(i, "access_denied")
    /\ code.Interval = Int64(10)
    /\ code.ExpiresIn = Int64(600)

\* the device_code RequestDeviceCode returned
InitialDeviceCode ==
    DecodeDeviceCode(trace[CHOOSE i \in DeviceReplies : TRUE].body).dcr.DeviceCode

\* the form of poll i carries client_id, device_code and grant_type
CarriesGrant(i) ==
    /\ {"client_id", "device_code", "grant_type"} \subseteq DOMAIN trace[i].form
    /\ trace[i].form["client_id"] = config.ClientID
    /\ trace[i].form["device_code"] = InitialDeviceCode
    /\ trace[i].form["grant_type"] = "urn:ietf:params:oauth:grant-type:device_code"

(***************************************************************************)
(* C15 as stated: every poll carries client_id, the DeviceCode's           *)
(* device_code and the device grant type, and carries a client_secret      *)
(* parameter if and only if a client secret is configured.                 *)
(***************************************************************************)
C15_SecretOnlyIfConfigured ==
    \A i \in PollsAfter(0) :
       /\ CarriesGrant(i)
       /\ "client_secret" \in DOMAIN trace[i].form <=> config.ClientSecret # ""

(***************************************************************************)
(* C15 amended: every poll carries exactly client_id, device_code (the     *)
(* DeviceCode's, the same on every poll), the device grant type and a      *)
(* client_secret parameter whose value is the configured secret, the empty *)
(* string when none is configured.                                         *)
(***************************************************************************)
C15_SecretAlwaysSent ==
    \A i \in PollsAfter(0) :
       /\ CarriesGrant(i)
       /\ DOMAIN trace[i].form = {"client_id", "client_secret", "device_code", "grant_type"}
       /\ trace[i].form["client_secret"] = config.ClientSecret

C15_Witness ==
    /\ polls = 3
    /\ config.ClientSecret = ""
    /\ InitialDeviceCode = "D1"
    /\ \A i \in PollsAfter(0) : trace[i].form["client_secret"] = ""

\* the body of reply i does not decode as a tokenOrError: it is not JSON, not
\* an object, or a member has the wrong JSON type
Undecodable(i) ==
    /\ trace[i].fail = ""
    /\ trace[i].status \in {200, 400}
    /\ LET b == trace[i].body IN
       \/ b.t \in {"malformed", "array"}
       \/ /\ b.t = "object"
          /\ \/ \E k \in {"access_token", "token_type", "refresh_token", "error",
                          "error_description"} \cap DOMAIN b.o : b.o[k].t \notin {"str", "null"}
             \/ "expires_in" \in DOMAIN b.o /\ b.o["expires_in"].t \notin {"int", "null"}
             \/ "expiry" \in DOMAIN b.o /\ b.o["expiry"].t \notin {"time", "null"}

(***************************************************************************)
(* C17: a status 200 or 400 reply whose body does not decode makes the     *)
(* call return the decode error with no token at once, after any number of *)
(* pending replies: the failed decode is the last thing the call does.     *)
(***************************************************************************)
C17_DecodeFailureIsFatal ==
    \A i \in TokenReplies :
       Undecodable(i) =>
          /\ WaitReturned
          /\ result.token = NilToken
          /\ result.err.kind = "decode"
          /\ Len(trace) = i + 1
          /\ trace[i + 1].ev = "decode"
          /\ ~trace[i + 1].ok

C17_Witness ==
    /\ pc = "wait_returned"
    /\ polls = 3
    /\ \E i \in TokenReplies : Undecodable(i) /\ trace[i].body.t = "object"
    /\ \E i \in TokenReplies : HasDiscriminant(i, "authorization_pending")

(***************************************************************************)
(* C18: a reply with status 428 is treated as pending, however many come   *)
(* in a row: handling it decodes nothing, leaves the DeviceCode as it is   *)
(* and goes to sleep; the sleep lasts the current interval and the next    *)
(* poll follows it.                                                        *)
(***************************************************************************)
C18_PreconditionRequiredIsPending ==
    /\ [][HandlesReply /\ NewReply.fail = "" /\ NewReply.status = 428
             => /\ pc' = "wait_sleep"
                /\ code' = code
                /\ Len(trace') = Len(trace) + 1]_vars
    /\ [](\A i \in TokenReplies :
             trace[i].fail = "" /\ trace[i].status = 428 =>
                /\ LastReply(i) => StillPolling
                /\ i + 1 <= Len(trace) => trace[i + 1].ev = "sleep"
                /\ i + 1 <= Len(trace) /\ LastReply(i) =>
                      trace[i + 1].d = Seconds(code.Interval)
                /\ i + 2 <= Len(trace) => i + 2 \in PollsAfter(i))

C18_Witness ==
    /\ pc = "wait_sleep"
    /\ polls = 3
    /\ \A i \in TokenReplies : trace[i].status = 428
    /\ code.Interval = Int64(5)

(***************************************************************************)
(* C19: whenever the call returns a nil error it returns a token: it never *)
(* returns no token together with no error.                                *)
(***************************************************************************)
C19_NilErrorMeansToken ==
    WaitReturned /\ result.err = NoError => ~result.token.nil

====
